---- MODULE Spec2Model ----
(***************************************************************************)
(* Model of the dYdX v3 client: the Private (API-key authenticated) module *)
(* and the DydxClient facade that creates its sub-modules on demand.       *)
(*                                                                         *)
(* JavaScript strings are sequences of tokens (a token is one character,   *)
(* or an opaque chunk such as a market name), so that slice, replace and   *)
(* concatenation are computed as the code computes them.  A JavaScript     *)
(* object is a sequence of <<key, value>> pairs in insertion order.        *)
(***************************************************************************)
EXTENDS Integers, Sequences, FiniteSets, TLC

\* ------------------------------------------------------------------ bounds

\* number of invocations of Private methods in one behaviour
MaxCalls == 2

\* ------------------------------------------------------- JavaScript values

Undefined == <<"#undefined">>
EmptyString == <<>>

\* ToBoolean on strings and undefined
Truthy(v) == v /= Undefined /\ v /= EmptyString

\* a || b
Or(a, b) == IF Truthy(a) THEN a ELSE b

EmptyObject == <<>>

Keys(obj) == {obj[i][1] : i \in DOMAIN obj}

Has(obj, k) == \E i \in DOMAIN obj : obj[i][1] = k

\* obj[k]
Field(obj, k) ==
    IF Has(obj, k) THEN obj[CHOOSE i \in DOMAIN obj : obj[i][1] = k][2] ELSE Undefined

\* { ...obj, k: v }: an existing key keeps its position, a new key is appended
With(obj, k, v) ==
    IF Has(obj, k)
    THEN [i \in DOMAIN obj |-> IF obj[i][1] = k THEN <<k, v>> ELSE obj[i]]
    ELSE Append(obj, <<k, v>>)

\* the entries whose value is not undefined, in order
RECURSIVE DefinedEntries(_)
DefinedEntries(obj) ==
    IF obj = <<>> THEN <<>>
    ELSE IF Head(obj)[2] = Undefined THEN DefinedEntries(Tail(obj))
    ELSE <<Head(obj)>> \o DefinedEntries(Tail(obj))

RECURSIVE JoinMembers(_)
JoinMembers(entries) ==
    IF entries = <<>> THEN <<>>
    ELSE <<"\"", Head(entries)[1], "\"", ":", "\"">> \o Head(entries)[2] \o <<"\"">>
         \o (IF Tail(entries) = <<>> THEN <<>> ELSE <<",">> \o JoinMembers(Tail(entries)))

\* JSON.stringify of an object of strings: undefined members are left out
JSONStringify(obj) == <<"{">> \o JoinMembers(DefinedEntries(obj)) \o <<"}">>

\* ------------------------------------------------------- Number to string

DigitChars == <<"0", "1", "2", "3", "4", "5", "6", "7", "8", "9">>

DigitChar(d) == DigitChars[d + 1]

RECURSIVE DigitsToString(_)
DigitsToString(ds) ==
    IF ds = <<>> THEN <<>> ELSE <<DigitChar(Head(ds))>> \o DigitsToString(Tail(ds))

RECURSIVE NatToString(_)
NatToString(m) ==
    IF m < 10 THEN <<DigitChar(m)>> ELSE NatToString(m \div 10) \o <<DigitChar(m % 10)>>

Zeros(z) == [i \in 1..z |-> "0"]

\* A value of [0, 1) is its shortest significand `digits` (no leading or
\* trailing zero digit) and the exponent n, value = 0.digits * 10^n, n <= 0;
\* zero has the empty significand.
Zero == [digits |-> <<>>, n |-> 0]

\* Number.prototype.toString(): decimal notation while the value is at least
\* 1e-6, exponent notation below
NumberToString(x) ==
    IF x.digits = <<>> THEN <<"0">>
    ELSE IF x.n > -6
         THEN <<"0", ".">> \o Zeros(-x.n) \o DigitsToString(x.digits)
         ELSE IF Len(x.digits) = 1
              THEN <<DigitChar(x.digits[1]), "e", "-">> \o NatToString(1 - x.n)
              ELSE <<DigitChar(x.digits[1]), ".">> \o DigitsToString(Tail(x.digits))
                   \o <<"e", "-">> \o NatToString(1 - x.n)

\* s.slice(2)
Slice2(s) == SubSeq(s, 3, Len(s))

\* s.replace(/^0+/, '')
RECURSIVE StripLeadingZeros(_)
StripLeadingZeros(s) ==
    IF s /= <<>> /\ Head(s) = "0" THEN StripLeadingZeros(Tail(s)) ELSE s

\* Math.random().toString().slice(2).replace(/^0+/, '')
GenerateClientId(rnd) == StripLeadingZeros(Slice2(NumberToString(rnd)))

\* ------------------------------------------------------------------- state

VARIABLES
    apiPrivateKey,    \* DydxClient.apiPrivateKey
    starkPrivateKey,  \* DydxClient.starkPrivateKey
    web3Provider,     \* options.web3Provider
    web3,             \* DydxClient.web3
    _private,         \* DydxClient._private
    _keys,            \* DydxClient._keys
    _onboarding,      \* DydxClient._onboarding
    _eth,             \* DydxClient._eth
    constructed,      \* how many modules of each kind have been constructed
    returned,         \* the getter accessed last, its value, whether it built the module
    apiKeyPair,       \* Private.apiKeyPair
    starkKeyPair,     \* Private.starkKeyPair
    calls,            \* per invocation of a Private method: its outcome so far
    call              \* the invocation started last, with its axiosRequest calls

clientVars == <<apiPrivateKey, starkPrivateKey, web3Provider, web3, _private, _keys,
                _onboarding, _eth, constructed, returned, apiKeyPair, starkKeyPair>>

privateVars == <<calls, call>>

vars == <<clientVars, privateVars>>

host == <<"https://api.example">>

\* ----------------------------------------------------------------- modules

NoModule == [kind |-> "undefined", id |-> 0]

Module(kind, id) == [kind |-> kind, id |-> id]

privateNotSupported == [kind |-> "privateNotSupported", id |-> 0]
keysNotSupported == [kind |-> "keysNotSupported", id |-> 0]
onboardingNotSupported == [kind |-> "onboardingNotSupported", id |-> 0]
ethNotSupported == [kind |-> "ethNotSupported", id |-> 0]

\* ToBoolean on an object reference or undefined
IsObject(ref) == ref /= NoModule

NoKeyPair == [publicKey |-> Undefined, privateKey |-> Undefined]

\* asSimpleKeyPair(asEcKeyPair(key)): the public key is a function of the private key
KeyPairOf(key) == [publicKey |-> <<"pub(">> \o key \o <<")">>, privateKey |-> key]

\* new Private(host, apiPrivateKey, starkPrivateKey)
PrivateConstructor(apiKey, starkKey) ==
    [apiKeyPair |-> KeyPairOf(apiKey),
     starkKeyPair |-> IF Truthy(starkKey) THEN KeyPairOf(starkKey) ELSE NoKeyPair]

\* new Web3(options.web3Provider as any): an object, whatever the provider
NewWeb3(provider) == Module("Web3", 1)

ApiPrivateKeys == {Undefined, EmptyString, <<"apiSecret">>}
StarkPrivateKeys == {Undefined, <<"starkSecret">>}
Web3Providers == {Undefined, <<"provider">>}

NoCall ==
    [id |-> 0, op |-> "none", params |-> EmptyObject, positionId |-> Undefined,
     clientId |-> Undefined, draws |-> 0, signed |-> EmptyObject, signCalls |-> 0,
     thrown |-> FALSE, requests |-> <<>>]

NoData == [defined |-> FALSE, obj |-> EmptyObject]

Data(obj) == [defined |-> TRUE, obj |-> obj]

Unused == [st |-> "unused", net |-> 0]

\* new DydxClient(host, options)
Init ==
    /\ apiPrivateKey \in ApiPrivateKeys
    /\ starkPrivateKey \in StarkPrivateKeys
    /\ web3Provider \in Web3Providers
    /\ web3 = NewWeb3(web3Provider)
    /\ _private = NoModule
    /\ _keys = NoModule
    /\ _onboarding = NoModule
    /\ _eth = NoModule
    /\ constructed = [Private |-> 0, Keys |-> 0, Onboarding |-> 0, Eth |-> 0]
    /\ returned = [getter |-> "none", value |-> NoModule, fresh |-> FALSE]
    /\ apiKeyPair = NoKeyPair
    /\ starkKeyPair = NoKeyPair
    /\ calls = [i \in 1..MaxCalls |-> Unused]
    /\ call = NoCall

\* ------------------------------------------------------------------ facade

\* get public()
GetPublic ==
    /\ returned' = [getter |-> "public", value |-> Module("Public", 1), fresh |-> FALSE]
    /\ UNCHANGED <<apiPrivateKey, starkPrivateKey, web3Provider, web3, _private, _keys,
                   _onboarding, _eth, constructed, apiKeyPair, starkKeyPair, privateVars>>

\* get private() without the apiPrivateKey test
GetPrivateUngated ==
    /\ IF ~IsObject(_private)
       THEN /\ _private' = Module("Private", constructed.Private + 1)
            /\ constructed' = [constructed EXCEPT !.Private = @ + 1]
            /\ apiKeyPair' = PrivateConstructor(apiPrivateKey, starkPrivateKey).apiKeyPair
            /\ starkKeyPair' = PrivateConstructor(apiPrivateKey, starkPrivateKey).starkKeyPair
            /\ returned' = [getter |-> "private", value |-> _private', fresh |-> TRUE]
       ELSE /\ returned' = [getter |-> "private", value |-> _private, fresh |-> FALSE]
            /\ UNCHANGED <<_private, constructed, apiKeyPair, starkKeyPair>>
    /\ UNCHANGED <<apiPrivateKey, starkPrivateKey, web3Provider, web3, _keys,
                   _onboarding, _eth, privateVars>>

\* get private() that does not memoize: a new module on every access
GetPrivateUnmemoized ==
    /\ IF Truthy(apiPrivateKey)
       THEN /\ constructed.Private < 3
            /\ _private' = Module("Private", constructed.Private + 1)
            /\ constructed' = [constructed EXCEPT !.Private = @ + 1]
            /\ apiKeyPair' = PrivateConstructor(apiPrivateKey, starkPrivateKey).apiKeyPair
            /\ starkKeyPair' = PrivateConstructor(apiPrivateKey, starkPrivateKey).starkKeyPair
            /\ returned' = [getter |-> "private", value |-> _private', fresh |-> TRUE]
       ELSE /\ returned' = [getter |-> "private", value |-> privateNotSupported, fresh |-> FALSE]
            /\ UNCHANGED <<_private, constructed, apiKeyPair, starkKeyPair>>
    /\ UNCHANGED <<apiPrivateKey, starkPrivateKey, web3Provider, web3, _keys,
                   _onboarding, _eth, privateVars>>

\* get private()
GetPrivate ==
    /\ IF ~IsObject(_private)
       THEN IF Truthy(apiPrivateKey)
            THEN /\ _private' = Module("Private", constructed.Private + 1)
                 /\ constructed' = [constructed EXCEPT !.Private = @ + 1]
                 /\ apiKeyPair' = PrivateConstructor(apiPrivateKey, starkPrivateKey).apiKeyPair
                 /\ starkKeyPair' =
                        PrivateConstructor(apiPrivateKey, starkPrivateKey).starkKeyPair
                 /\ returned' = [getter |-> "private", value |-> _private', fresh |-> TRUE]
            ELSE /\ returned' = [getter |-> "private", value |-> privateNotSupported, fresh |-> FALSE]
                 /\ UNCHANGED <<_private, constructed, apiKeyPair, starkKeyPair>>
       ELSE /\ returned' = [getter |-> "private", value |-> _private, fresh |-> FALSE]
            /\ UNCHANGED <<_private, constructed, apiKeyPair, starkKeyPair>>
    /\ UNCHANGED <<apiPrivateKey, starkPrivateKey, web3Provider, web3, _keys,
                   _onboarding, _eth, privateVars>>

\* get keys()
GetKeys ==
    /\ IF ~IsObject(_keys)
       THEN IF IsObject(web3)
            THEN /\ _keys' = Module("Keys", constructed.Keys + 1)
                 /\ constructed' = [constructed EXCEPT !.Keys = @ + 1]
                 /\ returned' = [getter |-> "keys", value |-> _keys', fresh |-> TRUE]
            ELSE /\ returned' = [getter |-> "keys", value |-> keysNotSupported, fresh |-> FALSE]
                 /\ UNCHANGED <<_keys, constructed>>
       ELSE /\ returned' = [getter |-> "keys", value |-> _keys, fresh |-> FALSE]
            /\ UNCHANGED <<_keys, constructed>>
    /\ UNCHANGED <<apiPrivateKey, starkPrivateKey, web3Provider, web3, _private,
                   _onboarding, _eth, apiKeyPair, starkKeyPair, privateVars>>

\* get onboarding()
GetOnboarding ==
    /\ IF ~IsObject(_onboarding)
       THEN IF IsObject(web3)
            THEN /\ _onboarding' = Module("Onboarding", constructed.Onboarding + 1)
                 /\ constructed' = [constructed EXCEPT !.Onboarding = @ + 1]
                 /\ returned' = [getter |-> "onboarding", value |-> _onboarding', fresh |-> TRUE]
            ELSE /\ returned' = [getter |-> "onboarding", value |-> onboardingNotSupported, fresh |-> FALSE]
                 /\ UNCHANGED <<_onboarding, constructed>>
       ELSE /\ returned' = [getter |-> "onboarding", value |-> _onboarding, fresh |-> FALSE]
            /\ UNCHANGED <<_onboarding, constructed>>
    /\ UNCHANGED <<apiPrivateKey, starkPrivateKey, web3Provider, web3, _private,
                   _keys, _eth, apiKeyPair, starkKeyPair, privateVars>>

\* get eth()
GetEth ==
    /\ IF ~IsObject(_eth)
       THEN IF IsObject(web3)
            THEN /\ _eth' = Module("Eth", constructed.Eth + 1)
                 /\ constructed' = [constructed EXCEPT !.Eth = @ + 1]
                 /\ returned' = [getter |-> "eth", value |-> _eth', fresh |-> TRUE]
            ELSE /\ returned' = [getter |-> "eth", value |-> ethNotSupported, fresh |-> FALSE]
                 /\ UNCHANGED <<_eth, constructed>>
       ELSE /\ returned' = [getter |-> "eth", value |-> _eth, fresh |-> FALSE]
            /\ UNCHANGED <<_eth, constructed>>
    /\ UNCHANGED <<apiPrivateKey, starkPrivateKey, web3Provider, web3, _private,
                   _keys, _onboarding, apiKeyPair, starkKeyPair, privateVars>>

NextClient == GetPublic \/ GetPrivate \/ GetKeys \/ GetOnboarding \/ GetEth

SpecClient == Init /\ [][NextClient]_vars

\* ------------------------------------------------------- Private: requests

RequestMethod == {"DELETE", "GET", "POST", "PUT"}

METHOD_ENUM_MAP ==
    ("DELETE" :> "DELETE") @@ ("GET" :> "GET") @@ ("POST" :> "POST") @@ ("PUT" :> "PUT")

\* ApiRequest.fromInternal(envelope).sign(privateKey): a function of every
\* field of the envelope and of the key
ApiSign(envelope, privateKey) ==
    <<"apiSig(">> \o envelope.body \o <<"|">> \o envelope.requestPath
    \o <<"|", envelope.method, "|">> \o envelope.publicKey \o <<"|">> \o envelope.expiresAt
    \o <<")by(">> \o privateKey \o <<")">>

\* sign() that signs an empty body whatever the data
SignEnvelopeNoBody(requestPath, method, timestamp, data, self) ==
    [body |-> EmptyString,
     requestPath |-> requestPath,
     method |-> METHOD_ENUM_MAP[method],
     publicKey |-> self.apiKeyPair.publicKey,
     expiresAt |-> timestamp]

\* the value sign() hands to ApiRequest.fromInternal
SignEnvelope(requestPath, method, timestamp, data, self) ==
    [body |-> IF data.defined THEN JSONStringify(data.obj) ELSE EmptyString,
     requestPath |-> requestPath,
     method |-> METHOD_ENUM_MAP[method],
     publicKey |-> self.apiKeyPair.publicKey,
     expiresAt |-> timestamp]

sign(requestPath, method, timestamp, data, self) ==
    ApiSign(SignEnvelope(requestPath, method, timestamp, data, self),
            self.apiKeyPair.privateKey)

\* request(): the argument of axiosRequest, with the envelope that was signed
request(method, endpoint, data, now, self) ==
    LET requestPath == <<"/v3/">> \o endpoint
        timestamp == now
        headers == << <<"DYDX-SIGNATURE", sign(requestPath, method, timestamp, data, self)>>,
                      <<"DYDX-API-KEY", self.apiKeyPair.publicKey>>,
                      <<"DYDX-TIMESTAMP", timestamp>> >>
    IN  [endpoint |-> endpoint,
         url |-> host \o requestPath,
         method |-> method,
         data |-> data,
         headers |-> headers,
         envelope |-> SignEnvelope(requestPath, method, timestamp, data, self)]

RECURSIVE JoinQuery(_)
JoinQuery(entries) ==
    IF entries = <<>> THEN <<>>
    ELSE <<Head(entries)[1], "=">> \o Head(entries)[2]
         \o (IF Tail(entries) = <<>> THEN <<>> ELSE <<"&">> \o JoinQuery(Tail(entries)))

\* generateQueryPath(url, params): the bare url when no parameter is defined
generateQueryPath(url, params) ==
    IF DefinedEntries(params) = <<>> THEN url
    ELSE url \o <<"?">> \o JoinQuery(DefinedEntries(params))

\* getAccountId({ address }): a deterministic function of the address
getAccountId(address) == <<"accountId(">> \o address \o <<")">>

get(endpoint, params, now, self) ==
    request("GET", generateQueryPath(endpoint, params), NoData, now, self)

post(endpoint, data, now, self) == request("POST", endpoint, Data(data), now, self)

put(endpoint, data, now, self) == request("PUT", endpoint, Data(data), now, self)

delete(endpoint, params, now, self) ==
    request("DELETE", generateQueryPath(endpoint, params), NoData, now, self)

\* ------------------------------------------- Private: orders and withdrawals

\* StarkExOrder.fromInternal(value).sign(keyPair) and the withdrawal's: a
\* non-empty string, a function of every field of the value and of the key
StarkSign(value, keyPair) ==
    <<"starkSig(">> \o JSONStringify(value) \o <<")by(">> \o keyPair.privateKey \o <<")">>

\* orderToSign with the caller's clientId in place of the resolved one
OrderToSignCallerClientId(params, clientId, positionId, self) ==
    With(With(With(params,
        "positionId", positionId),
        "starkKey", self.starkKeyPair.publicKey),
        "expiresAt", Field(params, "expiration"))

\* orderToSign
OrderToSign(params, clientId, positionId, self) ==
    With(With(With(With(params,
        "clientId", clientId),
        "positionId", positionId),
        "starkKey", self.starkKeyPair.publicKey),
        "expiresAt", Field(params, "expiration"))

\* withdrawalToSign without the position id
WithdrawalToSignNoPosition(params, clientId, positionId, self) ==
    With(With(With(With(params,
        "clientId", clientId),
        "starkKey", self.starkKeyPair.publicKey),
        "debitAmount", Field(params, "amount")),
        "expiresAt", Field(params, "expiration"))

\* withdrawalToSign
WithdrawalToSign(params, clientId, positionId, self) ==
    With(With(With(With(With(params,
        "clientId", clientId),
        "starkKey", self.starkKeyPair.publicKey),
        "debitAmount", Field(params, "amount")),
        "expiresAt", Field(params, "expiration")),
        "positionId", positionId)

\* the order payload with the position id left in
ApiOrderWithPosition(params, clientId, signature) ==
    With(With(With(params, "clientId", clientId), "signature", signature),
         "positionId", <<"position">>)

\* order: ApiOrder = { ...params, clientId, signature }
ApiOrder(params, clientId, signature) ==
    With(With(params, "clientId", clientId), "signature", signature)

\* withdrawal: ApiWithdrawal = { ...params, clientId, signature }
ApiWithdrawal(params, clientId, signature) ==
    With(With(params, "clientId", clientId), "signature", signature)

\* the outcome of an invocation that threw before any request
Thrown(clientId, draws) ==
    [thrown |-> TRUE, clientId |-> clientId, draws |-> draws, signed |-> EmptyObject,
     signCalls |-> 0, requests |-> <<>>]

\* createOrder() without the test for the stark key pair
createOrderUnchecked(params, positionId, rnd, now, self) ==
    LET clientId == Or(Field(params, "clientId"), GenerateClientId(rnd))
        draws == IF Truthy(Field(params, "clientId")) THEN 0 ELSE 1
        provided == Field(params, "signature")
        orderToSign == OrderToSign(params, clientId, positionId, self)
        local == ~Truthy(provided) /\ self.starkKeyPair /= NoKeyPair
        signature == IF local THEN StarkSign(orderToSign, self.starkKeyPair) ELSE provided
    IN  [thrown |-> FALSE, clientId |-> clientId, draws |-> draws,
         signed |-> IF local THEN orderToSign ELSE EmptyObject,
         signCalls |-> IF local THEN 1 ELSE 0,
         requests |-> <<post(<<"orders">>, ApiOrder(params, clientId, signature), now, self)>>]

\* createOrder(params, positionId), up to the call of axiosRequest
createOrder(params, positionId, rnd, now, self) ==
    LET clientId == Or(Field(params, "clientId"), GenerateClientId(rnd))
        draws == IF Truthy(Field(params, "clientId")) THEN 0 ELSE 1
        provided == Field(params, "signature")
        orderToSign == OrderToSign(params, clientId, positionId, self)
        local == ~Truthy(provided)
        signature == IF local THEN StarkSign(orderToSign, self.starkKeyPair) ELSE provided
    IN  IF local /\ self.starkKeyPair = NoKeyPair
        THEN Thrown(clientId, draws)
        ELSE [thrown |-> FALSE, clientId |-> clientId, draws |-> draws,
              signed |-> IF local THEN orderToSign ELSE EmptyObject,
              signCalls |-> IF local THEN 1 ELSE 0,
              requests |->
                  <<post(<<"orders">>, ApiOrder(params, clientId, signature), now, self)>>]

\* createWithdrawal(params, positionId), up to the call of axiosRequest
createWithdrawal(params, positionId, rnd, now, self) ==
    LET clientId == Or(Field(params, "clientId"), GenerateClientId(rnd))
        draws == IF Truthy(Field(params, "clientId")) THEN 0 ELSE 1
        provided == Field(params, "signature")
        withdrawalToSign == WithdrawalToSign(params, clientId, positionId, self)
        local == ~Truthy(provided)
        signature ==
            IF local THEN StarkSign(withdrawalToSign, self.starkKeyPair) ELSE provided
    IN  IF local /\ self.starkKeyPair = NoKeyPair
        THEN Thrown(clientId, draws)
        ELSE [thrown |-> FALSE, clientId |-> clientId, draws |-> draws,
              signed |-> IF local THEN withdrawalToSign ELSE EmptyObject,
              signCalls |-> IF local THEN 1 ELSE 0,
              requests |->
                  <<post(<<"withdrawals">>, ApiWithdrawal(params, clientId, signature),
                         now, self)>>]

\* ---------------------------------------------------------- Private: inputs

\* shortest significands: no leading and no trailing zero digit
SampleSignificands == {<<5>>, <<1, 5>>, <<5, 0, 1>>}

\* 0.5 and 0.05 (decimal notation), 0.000005 and 0.0000005 (the last value
\* in decimal notation and the first in exponent notation), 0.00000005
SampleExponents == {0, -1, -5, -6, -7}

\* the values Math.random() draws from [0, 1)
RandomValues ==
    {Zero} \cup {[digits |-> ds, n |-> e] : ds \in SampleSignificands, e \in SampleExponents}

Absent == [present |-> FALSE, value |-> Undefined]

Present(v) == [present |-> TRUE, value |-> v]

Optional(k, o) == IF o.present THEN << <<k, o.value>> >> ELSE <<>>

\* what the caller gives for clientId and signature
CallerChoices ==
    {<<Absent, Absent>>,
     <<Present(EmptyString), Absent>>,
     <<Present(<<"0", "7">>), Absent>>,
     <<Absent, Present(EmptyString)>>,
     <<Absent, Present(<<"0xcallersig">>)>>,
     <<Present(<<"0", "7">>), Present(<<"0xcallersig">>)>>}

\* PartialBy<ApiOrder, 'clientId' | 'signature'>
OrderParams ==
    {Optional("clientId", c[1])
     \o << <<"market", <<"BTC-USD">>>>, <<"side", <<"BUY">>>>, <<"size", <<"1", "0">>>>,
           <<"price", <<"3", "0", "0">>>>, <<"expiration", <<"2030-01-01T00:00:00Z">>>> >>
     \o Optional("signature", c[2]) : c \in CallerChoices}

\* PartialBy<ApiWithdrawal, 'clientId' | 'signature'>
WithdrawalParams ==
    {Optional("clientId", c[1])
     \o << <<"amount", <<"5", "0">>>>, <<"asset", <<"USDC">>>>,
           <<"expiration", <<"2030-01-01T00:00:00Z">>>> >>
     \o Optional("signature", c[2]) : c \in CallerChoices}

PositionIds == {<<"1", "2">>}

\* new Date().toISOString()
Timestamps == {<<"2026-01-01T00:00:00.000Z">>, <<"2026-01-01T00:00:01.000Z">>}

Markets == {Undefined, <<"BTC-USD">>}

QueryParams ==
    {EmptyObject,
     << <<"market", <<"BTC-USD">>>> >>,
     << <<"market", Undefined>>, <<"limit", <<"1", "0">>>> >>,
     << <<"market", <<"BTC-USD">>>>, <<"limit", <<"1", "0">>>> >>}

Identifiers == {<<"id1">>}

\* ---------------------------------------------------------- Private: actions

\* this, inside a method of the Private module
Self == [apiKeyPair |-> apiKeyPair, starkKeyPair |-> starkKeyPair]

NextId == 1 + Cardinality({i \in 1..MaxCalls : calls[i].st /= "unused"})

\* the outcome of a method that only dispatches one request
Plain(req) ==
    [thrown |-> FALSE, clientId |-> Undefined, draws |-> 0, signed |-> EmptyObject,
     signCalls |-> 0, requests |-> <<req>>]

\* client.private.<op>(...): the synchronous part of the method, r its outcome
Invoke(op, params, positionId, r) ==
    /\ IsObject(_private)
    /\ NextId <= MaxCalls
    /\ call' = [id |-> NextId, op |-> op, params |-> params, positionId |-> positionId,
                clientId |-> r.clientId, draws |-> r.draws, signed |-> r.signed,
                signCalls |-> r.signCalls, thrown |-> r.thrown, requests |-> r.requests]
    /\ calls' = [calls EXCEPT ![NextId] =
                    [st |-> IF r.thrown THEN "thrown" ELSE "pending",
                     net |-> Len(r.requests)]]
    /\ UNCHANGED clientVars

GetRegistration(now) ==
    Invoke("getRegistration", EmptyObject, Undefined,
           Plain(get(<<"registration">>, EmptyObject, now, Self)))

GetUser(now) ==
    Invoke("getUser", EmptyObject, Undefined, Plain(get(<<"users">>, EmptyObject, now, Self)))

UpdateUser(userData, now) ==
    Invoke("updateUser", userData, Undefined,
           Plain(put(<<"users">>,
                     << <<"email", <<"a@example.org">>>>, <<"username", <<"alice">>>>,
                        <<"userData", JSONStringify(userData)>> >>,
                     now, Self)))

CreateAccount(starkKey, now) ==
    Invoke("createAccount", EmptyObject, Undefined,
           Plain(post(<<"accounts">>, << <<"starkKey", starkKey>> >>, now, Self)))

GetAccount(ethereumAddress, now) ==
    Invoke("getAccount", EmptyObject, Undefined,
           Plain(get(<<"accounts/">> \o getAccountId(ethereumAddress), EmptyObject, now, Self)))

GetAccounts(now) ==
    Invoke("getAccounts", EmptyObject, Undefined,
           Plain(get(<<"accounts">>, EmptyObject, now, Self)))

GetPositions(params, now) ==
    Invoke("getPositions", params, Undefined, Plain(get(<<"positions">>, params, now, Self)))

GetOrders(params, now) ==
    Invoke("getOrders", params, Undefined, Plain(get(<<"orders">>, params, now, Self)))

GetOrderById(orderId, now) ==
    Invoke("getOrderById", EmptyObject, Undefined,
           Plain(get(<<"orders/">> \o orderId, EmptyObject, now, Self)))

GetOrderByClientId(clientId, now) ==
    Invoke("getOrderByClientId", EmptyObject, Undefined,
           Plain(get(<<"orders/client/">> \o clientId, EmptyObject, now, Self)))

CreateOrder(params, positionId, rnd, now) ==
    Invoke("createOrder", params, positionId, createOrder(params, positionId, rnd, now, Self))

CancelOrder(orderId, now) ==
    Invoke("cancelOrder", EmptyObject, Undefined,
           Plain(delete(<<"orders/">> \o orderId, EmptyObject, now, Self)))

CancelAllOrders(market, now) ==
    Invoke("cancelAllOrders", EmptyObject, Undefined,
           Plain(delete(<<"orders">>,
                        IF Truthy(market) THEN << <<"market", market>> >> ELSE EmptyObject,
                        now, Self)))

GetFills(params, now) ==
    Invoke("getFills", params, Undefined, Plain(get(<<"fills">>, params, now, Self)))

GetTransfers(params, now) ==
    Invoke("getTransfers", params, Undefined, Plain(get(<<"transfers">>, params, now, Self)))

CreateWithdrawal(params, positionId, rnd, now) ==
    Invoke("createWithdrawal", params, positionId,
           createWithdrawal(params, positionId, rnd, now, Self))

CreateDeposit(params, now) ==
    Invoke("createDeposit", params, Undefined, Plain(post(<<"deposits">>, params, now, Self)))

GetFundingPayments(params, now) ==
    Invoke("getFundingPayments", params, Undefined,
           Plain(get(<<"funding">>, params, now, Self)))

\* the promise of axiosRequest resolves: the method's promise resolves with it
AxiosResolve(id) ==
    /\ calls[id].st = "pending"
    /\ calls' = [calls EXCEPT ![id].st = "resolved"]
    /\ UNCHANGED <<clientVars, call>>

\* a rejection answered with a second request
AxiosRejectRetry(id) ==
    /\ calls[id].st = "pending"
    /\ calls' = [calls EXCEPT ![id].st = IF calls[id].net < 2 THEN "pending" ELSE "rejected",
                              ![id].net = IF calls[id].net < 2 THEN @ + 1 ELSE @]
    /\ UNCHANGED <<clientVars, call>>

\* the promise of axiosRequest rejects: the method's promise rejects with it
AxiosReject(id) ==
    /\ calls[id].st = "pending"
    /\ calls' = [calls EXCEPT ![id].st = "rejected"]
    /\ UNCHANGED <<clientVars, call>>

NextPrivate ==
    \/ \E now \in Timestamps :
        \/ GetRegistration(now)
        \/ GetUser(now)
        \/ \E userData \in QueryParams : UpdateUser(userData, now)
        \/ \E starkKey \in Identifiers : CreateAccount(starkKey, now)
        \/ \E ethereumAddress \in Identifiers : GetAccount(ethereumAddress, now)
        \/ GetAccounts(now)
        \/ \E params \in QueryParams : GetPositions(params, now)
        \/ \E params \in QueryParams : GetOrders(params, now)
        \/ \E orderId \in Identifiers : GetOrderById(orderId, now)
        \/ \E clientId \in Identifiers : GetOrderByClientId(clientId, now)
        \/ \E params \in OrderParams, positionId \in PositionIds, rnd \in RandomValues :
            CreateOrder(params, positionId, rnd, now)
        \/ \E orderId \in Identifiers : CancelOrder(orderId, now)
        \/ \E market \in Markets : CancelAllOrders(market, now)
        \/ \E params \in QueryParams : GetFills(params, now)
        \/ \E params \in QueryParams : GetTransfers(params, now)
        \/ \E params \in WithdrawalParams, positionId \in PositionIds, rnd \in RandomValues :
            CreateWithdrawal(params, positionId, rnd, now)
        \/ \E params \in QueryParams : CreateDeposit(params, now)
        \/ \E params \in QueryParams : GetFundingPayments(params, now)
    \/ \E id \in 1..MaxCalls : AxiosResolve(id)
    \/ \E id \in 1..MaxCalls : AxiosReject(id)

\* a client with an API key, after the first access of client.private
InitPrivate ==
    /\ apiPrivateKey \in {k \in ApiPrivateKeys : Truthy(k)}
    /\ starkPrivateKey \in StarkPrivateKeys
    /\ web3Provider = Undefined
    /\ web3 = NewWeb3(web3Provider)
    /\ _private = Module("Private", 1)
    /\ _keys = NoModule
    /\ _onboarding = NoModule
    /\ _eth = NoModule
    /\ constructed = [Private |-> 1, Keys |-> 0, Onboarding |-> 0, Eth |-> 0]
    /\ returned = [getter |-> "private", value |-> _private, fresh |-> TRUE]
    /\ apiKeyPair = PrivateConstructor(apiPrivateKey, starkPrivateKey).apiKeyPair
    /\ starkKeyPair = PrivateConstructor(apiPrivateKey, starkPrivateKey).starkKeyPair
    /\ calls = [i \in 1..MaxCalls |-> Unused]
    /\ call = NoCall

SpecPrivate == InitPrivate /\ [][NextPrivate]_vars

\* ------------------------------------------------------------------ claims

SignedOps == {"createOrder", "createWithdrawal"}

\* a non-empty string of decimal digits that does not start with the zero character
IsNumeral(str) ==
    /\ Len(str) > 0
    /\ \A i \in DOMAIN str : \E d \in DOMAIN DigitChars : str[i] = DigitChars[d]
    /\ str[1] /= "0"

\* C1: a createOrder or createWithdrawal call that is given no signature while
\* the module holds no stark key pair fails, and no axiosRequest call is made
\* for it, neither at once nor later, whether or not a clientId was given.
C1_UnsignedWithoutKeyNeverSent ==
    /\ (/\ call.op \in SignedOps
        /\ ~Truthy(Field(call.params, "signature"))
        /\ starkKeyPair = NoKeyPair)
       => (/\ call.thrown
           /\ call.requests = <<>>
           /\ calls[call.id].st = "thrown"
           /\ calls[call.id].net = 0)
    /\ \A id \in 1..MaxCalls : calls[id].st = "thrown" => calls[id].net = 0

\* a second invocation, a withdrawal with a clientId and no signature, has failed
C1_Witness ==
    /\ call.id = 2
    /\ call.op = "createWithdrawal"
    /\ Truthy(Field(call.params, "clientId"))
    /\ ~Truthy(Field(call.params, "signature"))
    /\ starkKeyPair = NoKeyPair
    /\ call.thrown

\* C2: on a client constructed without an apiPrivateKey the private getter
\* returns the not-supported stub on every access, and no Private module is
\* ever constructed or stored.
C2_NoApiKeyAlwaysStub ==
    ~Truthy(apiPrivateKey)
    => (/\ _private = NoModule
        /\ constructed.Private = 0
        /\ returned.getter = "private" => returned.value = privateNotSupported)

\* the stub is returned after the other modules were built, a stark key given
C2_Witness ==
    /\ apiPrivateKey = Undefined
    /\ Truthy(starkPrivateKey)
    /\ IsObject(_keys)
    /\ IsObject(_eth)
    /\ returned.getter = "private"
    /\ returned.value = privateNotSupported

\* C3: on a client constructed without a web3Provider the keys, onboarding
\* and eth getters return their not-supported stubs and construct no module.
C3_NoProviderAlwaysStub ==
    web3Provider = Undefined
    => (/\ _keys = NoModule
        /\ _onboarding = NoModule
        /\ _eth = NoModule
        /\ constructed.Keys = 0
        /\ constructed.Onboarding = 0
        /\ constructed.Eth = 0
        /\ returned.getter = "keys" => returned.value = keysNotSupported
        /\ returned.getter = "onboarding" => returned.value = onboardingNotSupported
        /\ returned.getter = "eth" => returned.value = ethNotSupported)

\* C4: the clientId generated when the caller gives none is a non-empty string
\* of decimal digits without a leading zero, whatever Math.random() returns.
C4_GeneratedClientIdIsNumeral ==
    (call.op \in SignedOps /\ call.draws = 1) => IsNumeral(call.clientId)

\* C5: when the call signs locally the clientId is fixed once, before signing:
\* the value signed and the payload posted carry the same clientId, and a
\* non-empty clientId of the caller is that clientId, with no random draw.
C5_ClientIdSignedIsClientIdSent ==
    (call.op \in SignedOps /\ call.signCalls = 1)
    => (/\ call.draws <= 1
        /\ Len(call.requests) = 1
        /\ Has(call.signed, "clientId")
        /\ Field(call.signed, "clientId") = call.clientId
        /\ Field(call.requests[1].data.obj, "clientId") = Field(call.signed, "clientId")
        /\ Truthy(Field(call.params, "clientId"))
           => (/\ call.draws = 0
               /\ Field(call.signed, "clientId") = Field(call.params, "clientId")))

\* an order without clientId has been signed locally and posted
C5_Witness ==
    /\ call.op = "createOrder"
    /\ call.signCalls = 1
    /\ call.draws = 1
    /\ ~Has(call.params, "clientId")
    /\ Len(call.requests) = 1

\* the fields of the value signed, given the fields that were added to it
SignedValueIs(added) ==
    /\ Keys(call.signed) = Keys(call.params) \cup added
    /\ \A k \in Keys(call.params) \ ({"clientId"} \cup added) :
           Field(call.signed, k) = Field(call.params, k)
    /\ Field(call.signed, "clientId") = call.clientId
    /\ Field(call.signed, "positionId") = call.positionId
    /\ Field(call.signed, "starkKey") = starkKeyPair.publicKey
    /\ Field(call.signed, "expiresAt") = Field(call.params, "expiration")

\* C6 as stated: the value handed to the signing primitive holds the caller's
\* fields, the clientId, the positionId, the stark public key and the
\* expiration as expiresAt, and nothing else.
C6_Original ==
    (call.op \in SignedOps /\ call.signCalls = 1)
    => SignedValueIs({"clientId", "positionId", "starkKey", "expiresAt"})

\* C6: the value handed to the signing primitive holds the caller's fields, the
\* clientId, the positionId, the stark public key and the expiration as
\* expiresAt; for a withdrawal also the caller's amount as debitAmount; and
\* nothing else.
C6_SignedValueFields ==
    /\ (call.op = "createOrder" /\ call.signCalls = 1)
       => SignedValueIs({"clientId", "positionId", "starkKey", "expiresAt"})
    /\ (call.op = "createWithdrawal" /\ call.signCalls = 1)
       => (/\ SignedValueIs({"clientId", "positionId", "starkKey", "expiresAt",
                             "debitAmount"})
           /\ Field(call.signed, "debitAmount") = Field(call.params, "amount"))

\* a withdrawal has been signed locally, its amount copied to debitAmount
C6_Witness ==
    /\ call.op = "createWithdrawal"
    /\ call.signCalls = 1
    /\ Has(call.signed, "debitAmount")
    /\ Truthy(Field(call.signed, "positionId"))

\* the envelope signed for a request is the request that is sent
EnvelopeMatches(r) ==
    /\ r.url = host \o r.envelope.requestPath
    /\ r.envelope.requestPath = <<"/v3/">> \o r.endpoint
    /\ r.envelope.method = r.method
    /\ r.envelope.expiresAt = Field(r.headers, "DYDX-TIMESTAMP")
    /\ r.envelope.publicKey = Field(r.headers, "DYDX-API-KEY")
    /\ r.envelope.publicKey = apiKeyPair.publicKey
    /\ r.envelope.body = IF r.data.defined THEN JSONStringify(r.data.obj) ELSE EmptyString
    /\ r.method \in {"GET", "DELETE"} => ~r.data.defined
    /\ Field(r.headers, "DYDX-SIGNATURE") = ApiSign(r.envelope, apiKeyPair.privateKey)

\* C7: for every request dispatched, the signed path is the path of the url
\* (version prefix, endpoint, query string), the signed method the method
\* sent, the signed timestamp and public key the two headers, and the signed
\* body the serialization of the data sent, empty when no data is sent.
C7_EnvelopeIsWhatIsSent ==
    \A i \in DOMAIN call.requests : EnvelopeMatches(call.requests[i])

\* a GET with a query string was dispatched after a POST with a body
C7_Witness ==
    /\ call.id = 2
    /\ call.op = "getOrders"
    /\ Len(call.requests) = 1
    /\ call.requests[1].method = "GET"
    /\ call.requests[1].endpoint = <<"orders", "?", "market", "=", "BTC-USD">>
    /\ call.requests[1].envelope.body = EmptyString
    /\ calls[1].net = 1

\* C8: an invocation that does not fail the signing precondition makes exactly
\* one axiosRequest call, for createOrder a POST to orders and for
\* createWithdrawal a POST to withdrawals, and stays at one call when that
\* call has failed or succeeded.
C8_ExactlyOneNetworkCall ==
    /\ \A id \in 1..MaxCalls :
           calls[id].st \in {"pending", "resolved", "rejected"} => calls[id].net = 1
    /\ (call.op \in SignedOps /\ ~call.thrown)
       => (/\ Len(call.requests) = 1
           /\ call.requests[1].method = "POST"
           /\ call.requests[1].endpoint =
                  (IF call.op = "createOrder" THEN <<"orders">> ELSE <<"withdrawals">>))

\* the request of a createOrder call was rejected while another call had resolved
C8_Witness ==
    /\ call.op = "createOrder"
    /\ call.id = 2
    /\ calls[2].st = "rejected"
    /\ calls[1].st = "resolved"

\* C9: the payload posted is the caller's parameters with clientId and
\* signature set: no other field differs or is added (no positionId, no
\* starkKey), and a non-empty signature of the caller is sent as it is, with no
\* local signing and without a stark key pair.
C9_PayloadIsParamsFinalized ==
    /\ (call.op \in SignedOps /\ Truthy(Field(call.params, "signature")))
       => (~call.thrown /\ call.signCalls = 0)
    /\ (call.op \in SignedOps /\ ~call.thrown)
       => (/\ Len(call.requests) = 1
           /\ LET payload == call.requests[1].data.obj
              IN  /\ call.requests[1].data.defined
                  /\ Keys(payload) = Keys(call.params) \cup {"clientId", "signature"}
                  /\ \A k \in Keys(call.params) \ {"clientId", "signature"} :
                         Field(payload, k) = Field(call.params, k)
                  /\ "positionId" \notin Keys(payload)
                  /\ "starkKey" \notin Keys(payload)
                  /\ Field(payload, "clientId") = call.clientId
                  /\ Truthy(Field(call.params, "clientId"))
                     => Field(payload, "clientId") = Field(call.params, "clientId")
                  /\ Truthy(Field(call.params, "signature"))
                     => Field(payload, "signature") = Field(call.params, "signature")
                  /\ ~Truthy(Field(call.params, "signature"))
                     => Field(payload, "signature") = StarkSign(call.signed, starkKeyPair))

\* an order with the caller's signature was posted by a module without stark key
C9_Witness ==
    /\ call.op = "createOrder"
    /\ Truthy(Field(call.params, "signature"))
    /\ starkKeyPair = NoKeyPair
    /\ Len(call.requests) = 1
    /\ call.signCalls = 0

\* C10: on a client constructed with an apiPrivateKey the Private module is
\* constructed by the first access of the private getter and never again:
\* every access returns the one instance, which stays stored once it is.
C10_PrivateMemoized ==
    Truthy(apiPrivateKey)
    => (/\ constructed.Private <= 1
        /\ _private = (IF constructed.Private = 0 THEN NoModule ELSE Module("Private", 1))
        /\ returned.getter = "private"
           => (/\ returned.value = Module("Private", 1)
               /\ _private = returned.value))

\* a later access of the getter returned the instance built by an earlier one
C10_Witness ==
    /\ Truthy(apiPrivateKey)
    /\ returned.getter = "private"
    /\ ~returned.fresh
    /\ returned.value = Module("Private", 1)
    /\ IsObject(_onboarding)

====
